---------------------------- MODULE Spec2Model ----------------------------
(***************************************************************************)
(* Model of src/Dashboard_OP-Gruppierung.py: the REDCap export             *)
(* (export_redcap_data, behind st.cache_data(ttl=300)), the record         *)
(* transformer prepare_data, and the Streamlit script that is run from top *)
(* to bottom on every user interaction.                                    *)
(*                                                                         *)
(* Text that the code parses or formats (raw codes, dates, quarter labels) *)
(* is a sequence of one-character strings, so that parsing and formatting  *)
(* are computed and not assumed.  Display labels that are only compared    *)
(* and joined are TLA+ strings.                                            *)
(***************************************************************************)
EXTENDS Integers, Sequences, FiniteSets, TLC

VARIABLES
    environ,    \* process environment: os.environ
    now,        \* wall clock, in seconds
    cache,      \* st.cache_data store of export_redcap_data
    session,    \* st.session_state (the keys the script sets itself)
    widgets,    \* values of the sidebar widgets kept by Streamlit between runs
    run,        \* what the last run of the script did and computed
    df_raw,     \* the raw frame last handed to prepare_data
    prepared    \* what prepare_data made of df_raw

vars == <<environ, now, cache, session, widgets, run, df_raw, prepared>>

-----------------------------------------------------------------------------
(* Text *)

\* Python None / a missing (NaN) cell of a DataFrame of strings.
None == <<"None">>

Digits == <<"0", "1", "2", "3", "4", "5", "6", "7", "8", "9">>

IsDigit(c) == \E i \in 1..10 : Digits[i] = c

DigitVal(c) == (CHOOSE i \in 1..10 : Digits[i] = c) - 1

AllDigits(s) == \A i \in 1..Len(s) : IsDigit(s[i])

\* int(s) for a sequence of digits.
RECURSIVE IntOf(_)
IntOf(s) == IF s = <<>> THEN 0
            ELSE 10 * IntOf(SubSeq(s, 1, Len(s) - 1)) + DigitVal(s[Len(s)])

\* str(n)
RECURSIVE StrOf(_)
StrOf(n) == IF n < 0 THEN <<"-">> \o StrOf(0 - n)
            ELSE IF n < 10 THEN <<Digits[n + 1]>>
            ELSE StrOf(n \div 10) \o <<Digits[(n % 10) + 1]>>

\* n zero-padded to at least w digits ('%04d', '%02d').
RECURSIVE Pad(_, _)
Pad(s, w) == IF Len(s) >= w THEN s ELSE Pad(<<"0">> \o s, w)

\* Position of the first c in s, 0 when there is none.
RECURSIVE Find(_, _, _)
Find(s, c, i) == IF i > Len(s) THEN 0
                 ELSE IF s[i] = c THEN i ELSE Find(s, c, i + 1)

\* ', '.join(labels) or fallback   (labels: a sequence of TLA+ strings)
RECURSIVE Join(_)
Join(labels) == IF labels = <<>> THEN ""
                ELSE IF Len(labels) = 1 THEN labels[1]
                ELSE labels[1] \o ", " \o Join(Tail(labels))

-----------------------------------------------------------------------------
(* pandas conversions used by prepare_data *)

NaN == [nan |-> TRUE, neg |-> FALSE, int |-> 0, whole |-> TRUE]

\* pd.to_numeric(cell, errors='coerce') on one cell: [-]digits[.digits] is a
\* number, everything else (None, '', text) is NaN.  `whole` says that the
\* fractional digits are all zero, i.e. that the float equals its integer part.
to_numeric(cell) ==
    IF cell = None THEN NaN
    ELSE LET neg   == Len(cell) > 0 /\ cell[1] = "-"
             body  == IF neg THEN Tail(cell) ELSE cell
             dot   == Find(body, ".", 1)
             ipart == IF dot = 0 THEN body ELSE SubSeq(body, 1, dot - 1)
             fpart == IF dot = 0 THEN <<>> ELSE SubSeq(body, dot + 1, Len(body))
         IN  IF /\ AllDigits(ipart) /\ AllDigits(fpart)
                /\ Len(ipart) + Len(fpart) > 0
             THEN [nan |-> FALSE, neg |-> neg, int |-> IntOf(ipart),
                   whole |-> \A i \in 1..Len(fpart) : fpart[i] = "0"]
             ELSE NaN

\* Series.map(mapping) on one numeric cell: the dict's label for a key equal
\* to the number (1.0 == 1), NaN (here <<>>) when there is none.
map(mapping, num) ==
    IF /\ ~num.nan /\ num.whole
       /\ (IF num.neg THEN 0 - num.int ELSE num.int) \in DOMAIN mapping
    THEN <<mapping[IF num.neg THEN 0 - num.int ELSE num.int]>>
    ELSE <<>>

\* Series.fillna(value) on one cell of labels.
fillna(cell, value) == IF cell = <<>> THEN value ELSE cell[1]

NaT == [year |-> 0, month |-> 0, day |-> 0]

IsLeap(y) == (y % 4 = 0 /\ y % 100 # 0) \/ y % 400 = 0

DaysInMonth(y, m) ==
    IF m = 2 THEN (IF IsLeap(y) THEN 29 ELSE 28)
    ELSE IF m \in {4, 6, 9, 11} THEN 30 ELSE 31

\* pd.to_datetime(cell, errors='coerce') on one cell holding REDCap's date
\* format YYYY-MM-DD: the date when it is a calendar date, NaT otherwise.
to_datetime(cell) ==
    IF /\ cell # None
       /\ Len(cell) = 10
       /\ cell[5] = "-" /\ cell[8] = "-"
       /\ AllDigits(SubSeq(cell, 1, 4))
       /\ AllDigits(SubSeq(cell, 6, 7))
       /\ AllDigits(SubSeq(cell, 9, 10))
    THEN LET y == IntOf(SubSeq(cell, 1, 4))
             m == IntOf(SubSeq(cell, 6, 7))
             d == IntOf(SubSeq(cell, 9, 10))
         IN  IF m \in 1..12 /\ d \in 1..DaysInMonth(y, m)
             THEN [year |-> y, month |-> m, day |-> d]
             ELSE NaT
    ELSE NaT

\* Variant: the quarter counted from the month without the shift by one.
dt_quarter_floor(date) == (date.month \div 3) + 1

\* Series.dt.quarter
dt_quarter(date) == ((date.month - 1) \div 3) + 1

\* Series.dt.to_period('Q').astype(str): '2024Q1', and 'NaT' for NaT.
period_str(date) ==
    IF date = NaT THEN <<"N", "a", "T">>
    ELSE Pad(StrOf(date.year), 4) \o <<"Q">> \o StrOf(dt_quarter(date))

\* Does (\d{4})Q(\d) match s at position i?
MatchesAt(s, i) ==
    /\ i + 5 <= Len(s)
    /\ AllDigits(SubSeq(s, i, i + 3))
    /\ s[i + 4] = "Q"
    /\ IsDigit(s[i + 5])

\* Series.str.replace(r'(\d{4})Q(\d)', r'Q\2-\1', regex=True) on one string:
\* every match, scanning from the left, is rewritten to Q<digit>-<4 digits>.
RECURSIVE str_replace(_, _)
str_replace(s, i) ==
    IF i > Len(s) THEN <<>>
    ELSE IF MatchesAt(s, i)
         THEN <<"Q", s[i + 5], "-">> \o SubSeq(s, i, i + 3) \o str_replace(s, i + 6)
         ELSE <<s[i]>> \o str_replace(s, i + 1)


-----------------------------------------------------------------------------
(* prepare_data *)

MaxFlagIndex == 9

CheckboxFields ==
    {"bereich", "leber_gruppen", "gruppen_chir_onko_sark", "lokalisation_sark"}

FlagColNames ==
    [f \in CheckboxFields |-> [i \in 1..MaxFlagIndex |-> f \o "___" \o Digits[i + 1]]]

\* Name of the i-th indicator column of a checkbox field: 'bereich___2'.
FlagCol(prefix, i) == FlagColNames[prefix][i]

\* [c for c in df.columns if c.startswith(prefix + '___')]
GroupCols(columns, prefix) ==
    {FlagCol(prefix, i) : i \in 1..MaxFlagIndex} \cap columns

CodedFields == {"zugang", "type_sark", "hipec", "max_dindo_calc"}

\* Columns a raw export can have (fields[0..13] of the request, as far as
\* the script reads them).
RawColumns ==
    {"opdatum", "hsm"} \cup CodedFields
    \cup {FlagCol("bereich", i) : i \in 1..9}
    \cup {FlagCol("leber_gruppen", i) : i \in 1..4}
    \cup {FlagCol("gruppen_chir_onko_sark", i) : i \in 1..4}
    \cup {FlagCol("lokalisation_sark", i) : i \in 1..5}

bereich_mapping ==
    (2 :> "BMC") @@ (4 :> "Chirurgische Onkologie/Sarkome") @@ (7 :> "Leber")
    @@ (8 :> "Pankreas") @@ (9 :> "Upper-GI")

leber_gruppen_mapping ==
    (1 :> "HCC") @@ (2 :> "CCC") @@ (3 :> "Metastasen") @@ (4 :> "Benigne")

gruppen_chir_onko_sark_mapping ==
    (1 :> "Knochen") @@ (2 :> "Weichteil") @@ (3 :> "GIST")
    @@ (4 :> "Andere Malignome")

lokalisation_sark_mapping ==
    (1 :> "Kopf/Hals") @@ (2 :> "Stamm") @@ (3 :> "Extremitäten")
    @@ (4 :> "Abdomen/retroperitoneal") @@ (5 :> "andere")

zugang_mapping ==
    (1 :> "Offen") @@ (2 :> "Laparoskopisch") @@ (3 :> "roboter-assistiert")
    @@ (4 :> "konvertiert") @@ (5 :> "hybrid (2Höhlen-Eingriffe)")

type_sark_mapping == (1 :> "CRS") @@ (2 :> "Sarkom/Weichteiltumor")

hipec_mapping == (1 :> "Ja") @@ (0 :> "Nein")

max_dindo_calc_mapping ==
    (0 :> "Keine Komplikation") @@ (1 :> "Grade I") @@ (2 :> "Grade Id")
    @@ (3 :> "Grade II") @@ (4 :> "Grade IId") @@ (5 :> "Grade IIIa")
    @@ (6 :> "Grade IIIa d") @@ (7 :> "Grade IIIb") @@ (8 :> "Grade IIIb d")
    @@ (9 :> "Grade IVa") @@ (10 :> "Grade IVa d") @@ (11 :> "Grade IVb")
    @@ (12 :> "Grade IVb d") @@ (13 :> "Grade V")

CheckboxMapping(field) ==
    CASE field = "bereich" -> bereich_mapping
      [] field = "leber_gruppen" -> leber_gruppen_mapping
      [] field = "gruppen_chir_onko_sark" -> gruppen_chir_onko_sark_mapping
      [] field = "lokalisation_sark" -> lokalisation_sark_mapping

CodedMapping(field) ==
    CASE field = "zugang" -> zugang_mapping
      [] field = "type_sark" -> type_sark_mapping
      [] field = "hipec" -> hipec_mapping
      [] field = "max_dindo_calc" -> max_dindo_calc_mapping

\* row.get(col): the cell, None when the frame has no such column.
row_get(row, columns, col) == IF col \in columns THEN row[col] ELSE None

\* [label for col, label in mapping.items() if row.get(col) == '1'], in the
\* dict's insertion order, which is the order of the flag numbers.
RECURSIVE ActiveLabels(_, _, _, _, _)
ActiveLabels(mapping, prefix, row, columns, i) ==
    IF i > MaxFlagIndex THEN <<>>
    ELSE (IF /\ i \in DOMAIN mapping
             /\ row_get(row, columns, FlagCol(prefix, i)) = <<"1">>
          THEN <<mapping[i]>> ELSE <<>>)
         \o ActiveLabels(mapping, prefix, row, columns, i + 1)

\* Variant: the join without the fallback.
JoinOnly(labels) == Join(labels)

\* ', '.join(...) or 'Nicht angegeben'
JoinOrSentinel(labels) ==
    IF Join(labels) = "" THEN "Nicht angegeben" ELSE Join(labels)

\* Variant: the first marked area instead of all of them.
get_bereich_first(row, columns) ==
    LET labels == ActiveLabels(bereich_mapping, "bereich", row, columns, 1)
    IN  IF labels = <<>> THEN "Nicht angegeben" ELSE labels[1]

get_bereich(row, columns) ==
    JoinOrSentinel(ActiveLabels(bereich_mapping, "bereich", row, columns, 1))

get_leber_gruppen(row, columns) ==
    JoinOrSentinel(
        ActiveLabels(leber_gruppen_mapping, "leber_gruppen", row, columns, 1))

get_gruppen_chir_onko_sark(row, columns) ==
    JoinOrSentinel(
        ActiveLabels(gruppen_chir_onko_sark_mapping, "gruppen_chir_onko_sark",
                     row, columns, 1))

get_lokalisation_sark(row, columns) ==
    JoinOrSentinel(
        ActiveLabels(lokalisation_sark_mapping, "lokalisation_sark",
                     row, columns, 1))

\* Variant: the mapping without fillna, an unmapped cell stays NaN.
MapCodedNoFillna(field, cell) ==
    LET label == map(CodedMapping(field), to_numeric(cell))
    IN  IF label = <<>> THEN "nan" ELSE label[1]

\* df[field] = pd.to_numeric(df[field], errors='coerce')
\* df[field] = df[field].map(mapping).fillna('Unbekannt')      (one cell)
MapCoded(field, cell) ==
    fillna(map(CodedMapping(field), to_numeric(cell)), "Unbekannt")

\* pandas <NA> / NaN in an integer column.
NA == -1

dt_year(date) == IF date = NaT THEN NA ELSE date.year

\* Variant: year and quarter added without the factor 10.
quartal_sort_sum(date) ==
    IF date = NaT THEN NA ELSE date.year + dt_quarter(date)

\* df['opdatum'].dt.year * 10 + df['opdatum'].dt.quarter
quartal_sort(date) ==
    IF date = NaT THEN NA ELSE date.year * 10 + dt_quarter(date)

\* df['diag_quartal_opdatum']
diag_quartal(date) == str_replace(period_str(date), 1)

DerivedColumns ==
    {"jahr_opdatum", "quartal_opdatum", "diag_quartal_opdatum", "quartal_sort"}

\* The checkbox fields whose indicator columns the frame has.
Collapsed(columns) == {f \in CheckboxFields : GroupCols(columns, f) # {}}

\* Columns of the frame prepare_data returns.
OutColumns(columns) ==
    LET flagcols == UNION {GroupCols(columns, f) : f \in CheckboxFields}
    IN  (columns \ flagcols) \cup Collapsed(columns) \cup DerivedColumns
        \cup {"index"}

\* One row after all column assignments of prepare_data, before dropna.
\* "index" is the row's index in the raw frame, which pandas keeps.
Assigned(row, columns, i, date) ==
    [index |-> i,
     opdatum |-> date,
     hsm |-> row["hsm"],
     bereich |-> get_bereich(row, columns),
     leber_gruppen |-> get_leber_gruppen(row, columns),
     gruppen_chir_onko_sark |-> get_gruppen_chir_onko_sark(row, columns),
     zugang |-> MapCoded("zugang", row["zugang"]),
     type_sark |-> MapCoded("type_sark", row["type_sark"]),
     hipec |-> MapCoded("hipec", row["hipec"]),
     lokalisation_sark |-> get_lokalisation_sark(row, columns),
     max_dindo_calc |-> MapCoded("max_dindo_calc", row["max_dindo_calc"]),
     jahr_opdatum |-> dt_year(date),
     quartal_opdatum |-> IF date = NaT THEN NA ELSE dt_quarter(date),
     diag_quartal_opdatum |-> diag_quartal(date),
     quartal_sort |-> quartal_sort(date)]

\* The cells of the columns the returned frame has.
Project(cells, out) == [c \in out |-> cells[c]]

\* Line 85 for one record, then the rest.
TransformRow(row, columns, out, i) ==
    Project(Assigned(row, columns, i, to_datetime(row["opdatum"])), out)

\* Variant: dropna() without subset, a record with any missing cell goes.
dropna_any(rows, col) ==
    LET keep(r) == r[col] # NA /\ r["hsm"] # None
    IN  SelectSeq(rows, keep)

\* Variant: no dropna, undated records stay.
dropna_keep(rows, col) == rows

\* df.dropna(subset=[col]) for an integer column.
RECURSIVE dropna(_, _)
dropna(rows, col) ==
    IF rows = <<>> THEN <<>>
    ELSE (IF Head(rows)[col] = NA THEN <<>> ELSE <<Head(rows)>>)
         \o dropna(Tail(rows), col)

NoFrame == [columns |-> {}, rows |-> <<>>]

\* DataFrame.empty
IsEmpty(frame) == frame.columns = {} \/ frame.rows = <<>>

\* Columns prepare_data subscripts without a guard: df['opdatum'], df['zugang'],
\* df['type_sark'], df['hipec'], df['max_dindo_calc'].
RequiredColumns == {"opdatum"} \cup CodedFields

\* Lines 85-211 on a frame with the columns the code subscripts: every
\* record transformed, the undated ones dropped.
Transform(df, out) ==
    [columns |-> out,
     rows |-> dropna([i \in 1..Len(df.rows) |->
                        TransformRow(df.rows[i], df.columns, out, i - 1)],
                     "jahr_opdatum")]

\* prepare_data(df).  df is [none, columns, rows]; the result is
\* kind "None" (return None), "KeyError" (a subscripted column is absent) or
\* "frame" with the transformed frame.
prepare_data(df) ==
    IF df.none \/ IsEmpty(df)
    THEN [kind |-> "None", df |-> NoFrame]
    ELSE IF ~(RequiredColumns \subseteq df.columns)
    THEN [kind |-> "KeyError", df |-> NoFrame]
    ELSE [kind |-> "frame", df |-> Transform(df, OutColumns(df.columns))]

\* str(pd.to_datetime(cell, errors='coerce'))
TimestampText(cell) ==
    IF to_datetime(cell) = NaT THEN <<"N", "a", "T">>
    ELSE cell \o <<" ", "0", "0", ":", "0", "0", ":", "0", "0">>

\* Variant: without df.copy() the assignment of line 85 writes the parsed
\* dates into the caller's frame.
ArgAfterInPlace(df) ==
    IF df.none \/ IsEmpty(df) \/ "opdatum" \notin df.columns THEN df
    ELSE [df EXCEPT !.rows =
            [i \in 1..Len(df.rows) |->
                [df.rows[i] EXCEPT !["opdatum"] = TimestampText(@)]]]

\* The caller's frame after prepare_data(df): df = df.copy() (line 84) makes
\* every later assignment write to the copy.
ArgAfter(df) == df


-----------------------------------------------------------------------------
(* Raw frames the model feeds to prepare_data *)

MaxRows == 2

MaxCode == 14

\* 'YYYY-MM-DD'
RawDate(y, m, d) ==
    Pad(StrOf(y), 4) \o <<"-">> \o Pad(StrOf(m), 2) \o <<"-">> \o Pad(StrOf(d), 2)

\* A well-formed record: 2024-02-15, no area, access 1, no complication.
BaseRow ==
    [c \in RawColumns |->
        CASE c = "opdatum" -> RawDate(2024, 2, 15)
          [] c \in {"zugang", "type_sark", "hipec"} -> <<"1">>
          [] c = "max_dindo_calc" -> <<"0">>
          [] OTHER -> <<"0">>]

RawCodes ==
    {None, <<>>, <<"x">>, <<"-", "1">>, <<"1", ".", "0">>, <<"2", ".", "5">>}
    \cup {StrOf(n) : n \in 0..MaxCode}

\* Records that differ in their coded fields.
CodeRows ==
    {[c \in RawColumns |-> IF c \in CodedFields THEN code ELSE BaseRow[c]] :
        code \in RawCodes}
    \cup {[BaseRow EXCEPT !["zugang"] = <<"7">>, !["type_sark"] = <<"2">>,
                          !["hipec"] = <<"0">>, !["max_dindo_calc"] = <<"1", "3">>]}

IsFlagCol(c) == c \notin ({"opdatum", "hsm"} \cup CodedFields)

\* The number of an indicator column: 7 for 'bereich___7'.
FlagNo(c) ==
    CHOOSE i \in 1..MaxFlagIndex : \E f \in CheckboxFields : c = FlagCol(f, i)

FlagSample == {1, 2, 4, 7}

\* Records that differ in their checkbox flags: flags number i \in set are
\* '1' and the others '0' in every checkbox field, or every flag has the
\* same cell (a missing value, an empty string, '1', a foreign value).
FlagRows ==
    {[c \in RawColumns |->
        IF IsFlagCol(c) THEN (IF FlagNo(c) \in set THEN <<"1">> ELSE <<"0">>)
        ELSE BaseRow[c]] : set \in SUBSET FlagSample}
    \cup {[c \in RawColumns |-> IF IsFlagCol(c) THEN cell ELSE BaseRow[c]] :
            cell \in {None, <<>>, <<"1">>, <<"2">>, <<"x">>}}

Years == {2023, 2024}

\* Records that differ in their date: every month of two years, days that
\* do not exist, text that is no date, and a missing date.
DateCells ==
    {RawDate(2023, m, 15) : m \in 1..12}
    \cup {RawDate(2024, 1, 1), RawDate(2024, 2, 29), RawDate(2024, 12, 31)}
    \cup {RawDate(2023, 2, 29), RawDate(2024, 2, 30), RawDate(2024, 4, 31)}
    \cup {None, <<>>, <<"x", "x">>}

\* Every field but the date malformed: foreign codes and foreign flags, or
\* nothing but missing values.
Malformed(cell, date) ==
    [c \in RawColumns |-> IF c = "opdatum" THEN date ELSE cell]

DateRows ==
    {[BaseRow EXCEPT !["opdatum"] = cell] : cell \in DateCells}
    \cup {Malformed(cell, date) :
            cell \in {None, <<"x">>}, date \in {RawDate(2024, 2, 15), <<>>}}

NoneFrame == [none |-> TRUE, columns |-> {}, rows |-> <<>>]

\* pd.DataFrame(records): the columns are the keys of the records, and an
\* empty list gives a frame without columns.
DataFrame(rows, absent) ==
    [none |-> FALSE,
     columns |-> IF rows = <<>> THEN {} ELSE RawColumns \ absent,
     rows |-> [i \in 1..Len(rows) |->
                 [c \in RawColumns |-> IF c \in absent THEN None ELSE rows[i][c]]]]

\* The argument None, and the frames of up to MaxRows records of Rows that
\* lack one of the column sets of Absents.
Frames(Rows, Absents) ==
    {NoneFrame}
    \cup {DataFrame(rows, absent) :
            rows \in UNION {[1..n -> Rows] : n \in 0..MaxRows},
            absent \in Absents}

Pending == [kind |-> "pending", df |-> NoFrame]


-----------------------------------------------------------------------------
(* export_redcap_data *)

API_URL == "https://fxdb.usb.ch/api/"

\* st.cache_data(ttl=300)
TTL == 300

TimeStep == 200

MaxTime == 450

\* os.getenv(name): <<>> is None, <<s>> the string s.
getenv(name) == environ[name]

\* What the registry can do with one POST: requests.post raises Timeout or
\* ConnectionError, or a response arrives with a status and a body.  A body
\* is a JSON array of flat records or no JSON at all; `decode` is the
\* exception class r.json() raises for the latter, which depends on the
\* installed requests (a RequestException since 2.27, a plain ValueError
\* before).
NoBody == [json |-> FALSE, decode |-> "RequestException", rows |-> <<>>, absent |-> {}]

JsonBody(rows, absent) ==
    [json |-> TRUE, decode |-> "RequestException", rows |-> rows, absent |-> absent]

NotJson(exc) == [json |-> FALSE, decode |-> exc, rows |-> <<>>, absent |-> {}]

Message(level, text) == [level |-> level, text |-> text, exc |-> "", status |-> 0]

\* st.error(f"Fehler beim Export: {e}")
ExportError(exc, status) ==
    [level |-> "error", text |-> "Fehler beim Export: ", exc |-> exc, status |-> status]

Returned(frame, msgs, requests) ==
    [kind |-> "returned", value |-> frame, msgs |-> msgs, requests |-> requests]

\* Variant: only None counts (if API_TOKEN is None).
IsNone(value) == value = <<>>

\* Python truth value of os.getenv's result: None and '' are false.
Falsy(value) == value = <<>> \/ value = <<"">>

\* Response.raise_for_status(): HTTPError for 4xx and 5xx.
raise_for_status(status) == status >= 400 /\ status < 600

\* The body of export_redcap_data(api_url) when the registry answers `resp`
\* to the request, if one is sent.  kind "returned" carries the value
\* (NoneFrame for None), kind "raised" an exception that leaves the function.
export_redcap_data(api_url, resp) ==
    LET API_TOKEN == getenv("tok_op_gruppen")
    IN  IF Falsy(API_TOKEN)
        THEN Returned(NoneFrame,
                 <<Message("error",
                     "API Token nicht gefunden. Bitte Umgebungsvariable 'tok_op_gruppen' setzen.")>>,
                 0)
        ELSE IF resp.kind # "response"
        THEN Returned(NoneFrame, <<ExportError(resp.kind, 0)>>, 1)
        ELSE IF raise_for_status(resp.status)
        THEN Returned(NoneFrame, <<ExportError("HTTPError", resp.status)>>, 1)
        ELSE IF ~resp.body.json
        THEN (IF resp.body.decode = "RequestException"
              THEN Returned(NoneFrame, <<ExportError("JSONDecodeError", 0)>>, 1)
              ELSE [kind |-> "raised", value |-> NoneFrame, msgs |-> <<>>,
                    requests |-> 1])
        ELSE Returned(DataFrame(resp.body.rows, resp.body.absent), <<>>, 1)

NoEntry == [set |-> FALSE, at |-> 0, value |-> NoneFrame, msgs |-> <<>>]

\* Variant: an entry never expires (st.cache_data without ttl).
FreshForever(entry, t) == entry.set

\* Is the entry of st.cache_data still served at time t?
Fresh(entry, t) == entry.set /\ t - entry.at < TTL

\* A call of the cached export_redcap_data(api_url) at time `now`: a fresh
\* entry is returned and the st.error calls recorded with it are replayed;
\* otherwise the body runs and what it returns is stored.  An exception is
\* not stored.
cached_export(api_url, resp) ==
    IF Fresh(cache, now)
    THEN [call |-> Returned(cache.value, cache.msgs, 0), cache |-> cache]
    ELSE LET call == export_redcap_data(api_url, resp)
         IN  [call |-> call,
              cache |-> IF call.kind = "returned"
                        THEN [set |-> TRUE, at |-> now, value |-> call.value,
                              msgs |-> call.msgs]
                        ELSE cache]


-----------------------------------------------------------------------------
(* The script: one run from top to bottom *)

Min(S) == CHOOSE x \in S : \A y \in S : x <= y

Max(S) == CHOOSE x \in S : \A y \in S : x >= y

\* set(df[col])
Unique(rows, col) == {rows[i][col] : i \in 1..Len(rows)}

\* df[df['jahr_opdatum'].isin(selected_jahre)]
FilterJahr(rows, selected_jahre) ==
    LET keep(r) == r["jahr_opdatum"] \in selected_jahre
    IN  SelectSeq(rows, keep)

\* df[df['quartal_opdatum'].isin(selected_quartale)]
FilterQuartal(rows, selected_quartale) ==
    LET keep(r) == r["quartal_opdatum"] \in selected_quartale
    IN  SelectSeq(rows, keep)

\* df[(df['jahr_opdatum'].isin(selected_jahre)) &
\*    (df['quartal_opdatum'].isin(selected_quartale))]
FilterJahrQuartal(rows, selected_jahre, selected_quartale) ==
    LET keep(r) == /\ r["jahr_opdatum"] \in selected_jahre
                   /\ r["quartal_opdatum"] \in selected_quartale
    IN  SelectSeq(rows, keep)

\* if bereich_filter != "Alle": d = d[d['bereich'] == bereich_filter]
FilterBereich(rows, bereich_filter) ==
    LET keep(r) == r["bereich"] = bereich_filter
    IN  IF bereich_filter # "Alle" THEN SelectSeq(rows, keep) ELSE rows

\* if zugang_filter != "Alle": d = d[d['zugang'] == zugang_filter]
FilterZugang(rows, zugang_filter) ==
    LET keep(r) == r["zugang"] = zugang_filter
    IN  IF zugang_filter # "Alle" THEN SelectSeq(rows, keep) ELSE rows

\* df_jahr_filtered after the area and access filters (lines 382, 391, 395)
df_jahr_filtered_of(rows, jahre, bereich_filter, zugang_filter) ==
    FilterZugang(FilterBereich(FilterJahr(rows, jahre), bereich_filter),
                 zugang_filter)

\* Variant: the area filter takes its rows from df_jahr_filtered.
df_filtered_from_jahr(rows, jahre, quartale, bereich_filter, zugang_filter) ==
    IF bereich_filter # "Alle"
    THEN FilterZugang(FilterBereich(FilterJahr(rows, jahre), bereich_filter),
                      zugang_filter)
    ELSE FilterZugang(FilterJahrQuartal(rows, jahre, quartale), zugang_filter)

\* df_filtered after the area and access filters (lines 384-387, 392, 396)
df_filtered_of(rows, jahre, quartale, bereich_filter, zugang_filter) ==
    FilterZugang(FilterBereich(FilterJahrQuartal(rows, jahre, quartale),
                               bereich_filter),
                 zugang_filter)

\* No request was sent.
NoResponse == [kind |-> "none", status |-> 0, body |-> NoBody]

NoSession ==
    [has_jahre |-> FALSE, selected_jahre |-> {},
     has_quartale |-> FALSE, selected_quartale |-> {}]

\* Widget values Streamlit keeps from one run to the next; `on` says that
\* the widget was drawn by the last run.
NoWidgets ==
    [slider |-> [on |-> FALSE, min |-> 0, max |-> 0, value |-> <<0, 0>>],
     pills |-> [on |-> FALSE, value |-> {}],
     bereich |-> [on |-> FALSE, options |-> {}, value |-> "Alle"],
     zugang |-> [on |-> FALSE, options |-> {}, value |-> "Alle"]]

\* Lines 242-251.
SessionInit(s, alle_jahre) ==
    [has_jahre |-> TRUE,
     selected_jahre |-> IF s.has_jahre THEN s.selected_jahre ELSE alle_jahre,
     has_quartale |-> TRUE,
     selected_quartale |-> IF s.has_quartale THEN s.selected_quartale
                           ELSE {1, 2, 3, 4}]

\* st.slider(min_value, max_value, value=(min, max)) without a key: the value
\* set by the user is returned as long as the widget is drawn with the same
\* arguments, the default otherwise.
SliderValue(w, min_jahr, max_jahr) ==
    IF w.slider.on /\ w.slider.min = min_jahr /\ w.slider.max = max_jahr
    THEN w.slider.value ELSE <<min_jahr, max_jahr>>

\* st.pills(..., default=..., key="pills_selection"): the default on the
\* first drawing, the user's selection afterwards.
PillsValue(w, default) == IF w.pills.on THEN w.pills.value ELSE default

\* st.selectbox(label, options): the first option until the user picks one,
\* and again when the options change.
SelectValue(box, options) ==
    IF box.on /\ box.options = options THEN box.value ELSE "Alle"

\* The key of a record in a grouping by the columns cols.
KeyOf(r, cols) == [c \in cols |-> r[c]]

\* rows.groupby(cols).size(): the number of records for each combination of
\* values of cols that occurs.
groupby_size(rows, cols) ==
    [k \in {KeyOf(rows[i], cols) : i \in 1..Len(rows)} |->
        Cardinality({i \in 1..Len(rows) : KeyOf(rows[i], cols) = k})]

\* The code point of a character of an axis label.
Ord(c) ==
    CASE c = " " -> 32
      [] c = "-" -> 45
      [] IsDigit(c) -> 48 + DigitVal(c)
      [] c = "Q" -> 81

\* s < t for two strings.
RECURSIVE LexLess(_, _)
LexLess(s, t) ==
    IF t = <<>> THEN FALSE
    ELSE IF s = <<>> THEN TRUE
    ELSE IF Head(s) = Head(t) THEN LexLess(Tail(s), Tail(t))
    ELSE Ord(Head(s)) < Ord(Head(t))

\* xaxis={'categoryorder': 'category ascending', "type": "category"}: the
\* categories of the axis in the order of their label strings.
RECURSIVE category_ascending(_)
category_ascending(labels) ==
    IF labels = {} THEN <<>>
    ELSE LET first == CHOOSE a \in labels : \A b \in labels \ {a} : LexLess(a, b)
         IN  <<first>> \o category_ascending(labels \ {first})

\* Graph 1 (lines 425-458): jahr_counts_df with jahr_str, and the x axis.
Graph1(df_jahr_filtered) ==
    LET size == groupby_size(df_jahr_filtered, {"jahr_opdatum"})
        jahr_counts_df ==
            {[jahr_opdatum |-> k["jahr_opdatum"], count |-> size[k],
              jahr_str |-> StrOf(k["jahr_opdatum"])] : k \in DOMAIN size}
    IN  [drawn |-> TRUE, jahr_counts_df |-> jahr_counts_df,
         xaxis |-> category_ascending({g.jahr_str : g \in jahr_counts_df})]

\* "Q" + quartal.astype(int).astype(str) + "- " + jahr.astype(int).astype(str)
x_label(jahr, quartal) == <<"Q">> \o StrOf(quartal) \o <<"-", " ">> \o StrOf(jahr)

\* Graph 2 (lines 462-495): q_counts with x_label, and the x axis.
Graph2(df_filtered) ==
    LET size == groupby_size(df_filtered, {"jahr_opdatum", "quartal_opdatum"})
        q_counts ==
            {[jahr_opdatum |-> k["jahr_opdatum"],
              quartal_opdatum |-> k["quartal_opdatum"], count |-> size[k],
              x_label |-> x_label(k["jahr_opdatum"], k["quartal_opdatum"])] :
                k \in DOMAIN size}
    IN  [drawn |-> TRUE, q_counts |-> q_counts,
         xaxis |-> category_ascending({g.x_label : g \in q_counts})]

\* A chart that is not drawn.
NoGraph == [drawn |-> FALSE]

\* list(ANALYSEN_PRO_BEREICH.keys())   (lines 507-519)
bereiche ==
    <<"Chirurgische Onkologie/Sarkome", "Leber", "Upper-GI", "BMC", "Pankreas">>

ANALYSEN_PRO_BEREICH ==
    [b \in {bereiche[i] : i \in 1..Len(bereiche)} |->
        CASE b = "Chirurgische Onkologie/Sarkome" ->
                {"Gesamtzahl Operationen", "Übersicht Sarkome",
                 "Gruppen (Sarkome/Weichteiltumoren)", "HIPEC bei CRS",
                 "Lokalisation (Sarkome/Weichteiltumoren)",
                 "Kolorektale Resektionen bei CRS ohne HIPEC",
                 "Anastomoseinsuffizienz", "Komplikationen", "LOS"}
          [] b = "Leber" ->
                {"Gruppen", "Zugang", "Komplikationen", "HSM", "LOS", "Trends"}
          [] b = "BMC" -> {"Komplikationen", "LOS", "Trends"}
          [] OTHER -> {"Zugang", "Komplikationen", "LOS", "Trends"}]

\* df_filtered[df_filtered["bereich"] == bereich]
TabRows(df_filtered, bereich) ==
    LET keep(r) == r["bereich"] = bereich
    IN  SelectSeq(df_filtered, keep)

\* df_bereich[df_bereich["type_sark"] == label]
OfType(df_bereich, label) ==
    LET keep(r) == r["type_sark"] = label
    IN  SelectSeq(df_bereich, keep)

\* df_bereich[df_bereich["type_sark"].notna()]: every label is a value,
\* 'nan' stands for a cell that was left NaN.
SarkomPlot(df_bereich) ==
    LET notna(r) == r["type_sark"] # "nan"
    IN  SelectSeq(df_bereich, notna)

\* The values of the two tiles (lines 543-646): <<n>> for a count, <<>> for
\* the '-' of a tab without the analysis.
Kacheln(analysen, df_bereich) ==
    [total_ops |->
        IF "Gesamtzahl Operationen" \in analysen
        THEN <<Len(TabRows(df_bereich, "Chirurgische Onkologie/Sarkome"))>>
        ELSE <<>>,
     total_sark |->
        IF "Übersicht Sarkome" \in analysen
        THEN <<Len(SarkomPlot(df_bereich))>>
        ELSE <<>>]

\* hsm.astype(str).map({'0':'Nein','1':'Ja','0.0':'Nein','1.0':'Ja'}): the
\* label, or <<>> for NaN.
hsm_label(hsm) ==
    IF hsm \in {<<"0">>, <<"0", ".", "0">>} THEN <<"Nein">>
    ELSE IF hsm \in {<<"1">>, <<"1", ".", "0">>} THEN <<"Ja">>
    ELSE <<>>

\* df_hsm (lines 915-916): the records with an hsm value, with hsm_label.
df_hsm_of(df_bereich) ==
    LET notna(r) == r["hsm"] # None
        kept == SelectSeq(df_bereich, notna)
    IN  [i \in 1..Len(kept) |->
            [c \in DOMAIN kept[i] \cup {"hsm_label"} |->
                IF c = "hsm_label" THEN hsm_label(kept[i]["hsm"])
                ELSE kept[i][c]]]

\* What groupby(cols) sees of df_hsm: a record with a NaN key is in no group.
HsmGrouped(df_hsm) ==
    LET labelled(r) == r["hsm_label"] # <<>>
    IN  SelectSeq(df_hsm, labelled)

\* The grouped tables a detail tab computes, by the name of the variable or
\* of the tab (lines 543-979).
TabTables(analysen, df_bereich, columns) ==
    LET sark == OfType(df_bereich, "Sarkom/Weichteiltumor")
        crs  == OfType(df_bereich, "CRS")
    IN  {n \in {"kachel_ops", "kachel_sarkome", "uebersicht_sarkome",
                "gruppen_sark", "hipec", "lokalisation_sark",
                "leber_gruppen", "zug", "d", "hsm_jahr", "hsm_bereich", "t"} :
            CASE n = "kachel_ops" -> "Gesamtzahl Operationen" \in analysen
              [] n = "kachel_sarkome" ->
                    /\ "Übersicht Sarkome" \in analysen
                    /\ SarkomPlot(df_bereich) # <<>>
              [] n = "uebersicht_sarkome" -> "Übersicht Sarkome" \in analysen
              [] n = "gruppen_sark" ->
                    /\ "Gruppen (Sarkome/Weichteiltumoren)" \in analysen
                    /\ "gruppen_chir_onko_sark" \in columns
                    /\ sark # <<>>
              [] n = "hipec" -> "HIPEC bei CRS" \in analysen /\ crs # <<>>
              [] n = "lokalisation_sark" ->
                    /\ "Lokalisation (Sarkome/Weichteiltumoren)" \in analysen
                    /\ "lokalisation_sark" \in columns
                    /\ sark # <<>>
              [] n = "leber_gruppen" ->
                    "Gruppen" \in analysen /\ "leber_gruppen" \in columns
              [] n = "zug" -> "Zugang" \in analysen
              [] n = "d" -> "Komplikationen" \in analysen
              [] n \in {"hsm_jahr", "hsm_bereich"} ->
                    "HSM" \in analysen /\ df_hsm_of(df_bereich) # <<>>
              [] n = "t" -> "Trends" \in analysen}

\* The grouped table of that name.
TabTable(n, df_bereich) ==
    CASE n \in {"kachel_ops", "t"} -> groupby_size(df_bereich, {"jahr_opdatum"})
      [] n = "kachel_sarkome" ->
            groupby_size(SarkomPlot(df_bereich), {"jahr_opdatum", "type_sark"})
      [] n = "uebersicht_sarkome" ->
            groupby_size(df_bereich, {"jahr_opdatum", "type_sark"})
      [] n = "gruppen_sark" ->
            groupby_size(OfType(df_bereich, "Sarkom/Weichteiltumor"),
                         {"jahr_opdatum", "gruppen_chir_onko_sark"})
      [] n = "hipec" ->
            groupby_size(OfType(df_bereich, "CRS"), {"jahr_opdatum", "hipec"})
      [] n = "lokalisation_sark" ->
            groupby_size(OfType(df_bereich, "Sarkom/Weichteiltumor"),
                         {"jahr_opdatum", "lokalisation_sark"})
      [] n = "leber_gruppen" ->
            groupby_size(df_bereich, {"jahr_opdatum", "leber_gruppen"})
      [] n = "zug" -> groupby_size(df_bereich, {"jahr_opdatum", "zugang"})
      [] n = "d" -> groupby_size(df_bereich, {"jahr_opdatum", "max_dindo_calc"})
      [] n = "hsm_jahr" ->
            groupby_size(HsmGrouped(df_hsm_of(df_bereich)),
                         {"jahr_opdatum", "hsm_label"})
      [] n = "hsm_bereich" ->
            groupby_size(HsmGrouped(df_hsm_of(df_bereich)),
                         {"bereich", "hsm_label"})

\* The notices of a detail tab with records, in the order of the code.
TabNotices(analysen, df_bereich, columns) ==
    LET sark == OfType(df_bereich, "Sarkom/Weichteiltumor")
        crs  == OfType(df_bereich, "CRS")
        note(cond, text) == IF cond THEN <<Message("info", text)>> ELSE <<>>
    IN  note(/\ "Gruppen (Sarkome/Weichteiltumoren)" \in analysen
             /\ "gruppen_chir_onko_sark" \in columns /\ sark = <<>>,
             "Keine Daten für type_sark = '2'")
        \o note("HIPEC bei CRS" \in analysen /\ crs = <<>>,
                "Keine Daten für type_sark = '1'")
        \o note(/\ "Lokalisation (Sarkome/Weichteiltumoren)" \in analysen
                /\ "lokalisation_sark" \in columns /\ sark = <<>>,
                "Keine Daten für Sarkom/Weichteiltumor")
        \o note("Gruppen" \in analysen /\ "leber_gruppen" \notin columns,
                "Keine Gruppendaten")
        \o note(/\ "HSM" \in analysen /\ "hsm" \in columns
                /\ df_hsm_of(df_bereich) = <<>>,
                "Keine HSM-Daten für diesen Bereich")

\* One pass of the loop over the areas (lines 523-979).
Tab(bereich, df_filtered, columns) ==
    LET df_bereich == TabRows(df_filtered, bereich)
        analysen == ANALYSEN_PRO_BEREICH[bereich]
    IN  IF df_bereich = <<>>
        THEN [df_bereich |-> df_bereich, raised |-> FALSE, tables |-> {},
              kacheln |-> [total_ops |-> <<>>, total_sark |-> <<>>],
              msgs |-> <<Message("warning", "Keine Daten für diesen Bereich")>>]
        ELSE IF "HSM" \in analysen /\ "hsm" \notin columns
        THEN \* df_bereich['hsm'] raises KeyError (line 914)
             [df_bereich |-> df_bereich, raised |-> TRUE,
              kacheln |-> Kacheln(analysen, df_bereich),
              tables |-> TabTables(analysen, df_bereich, columns)
                         \cap {"leber_gruppen", "zug", "d"},
              msgs |-> TabNotices(analysen, df_bereich, columns)]
        ELSE [df_bereich |-> df_bereich, raised |-> FALSE,
              kacheln |-> Kacheln(analysen, df_bereich),
              tables |-> TabTables(analysen, df_bereich, columns),
              msgs |-> TabNotices(analysen, df_bereich, columns)]

\* The loop over the areas from the i-th on: it ends where a pass raises.
RECURSIVE Tabs(_, _, _)
Tabs(i, df_filtered, columns) ==
    IF i > Len(bereiche) THEN <<>>
    ELSE LET tab == Tab(bereiche[i], df_filtered, columns)
         IN  IF tab.raised THEN <<tab>>
             ELSE <<tab>> \o Tabs(i + 1, df_filtered, columns)

\* The notices of the passes, in order.
RECURSIVE TabMsgs(_)
TabMsgs(tabs) ==
    IF tabs = <<>> THEN <<>> ELSE Head(tabs).msgs \o TabMsgs(Tail(tabs))

\* The metrics row (lines 403-410).
Kennzahlen(df_jahr_filtered, s) ==
    [shown |-> TRUE,
     gesamt_faelle |-> Len(df_jahr_filtered),
     bereiche |-> Cardinality(Unique(df_jahr_filtered, "bereich")),
     jahre |-> Cardinality(s.selected_jahre),
     quartale |-> Cardinality(s.selected_quartale)]

NoKennzahlen ==
    [shown |-> FALSE, gesamt_faelle |-> 0, bereiche |-> 0, jahre |-> 0,
     quartale |-> 0]

NoRun ==
    [outcome |-> "none", export |-> "none", resp |-> NoResponse,
     msgs |-> <<>>, requests |-> 0, reached |-> {},
     selected_jahre |-> {}, selected_quartale |-> {},
     bereich_filter |-> "Alle", zugang_filter |-> "Alle",
     df_jahr_filtered |-> <<>>, df_filtered |-> <<>>,
     kennzahlen |-> NoKennzahlen, graph1 |-> NoGraph, graph2 |-> NoGraph,
     tabs |-> <<>>]

\* The frame df after the loop over the areas.  The loop assigns to one
\* frame of records only, df_hsm['hsm_label'] (line 916), and df_hsm is a
\* copy (line 915) of rows taken from df_filtered, itself a copy (line 387):
\* the assignment does not reach df.
AfterTabs(df, tabs) == df

\* The run from the charts on (lines 421-982); tabs is what the loop over
\* the areas did.
Render(df, s, w, run0, msgs, dfj, dff, tabs) ==
    [session |-> s, widgets |-> w, df |-> AfterTabs(df, tabs),
     run |-> [run0 EXCEPT
         !.outcome = IF tabs[Len(tabs)].raised THEN "exception" ELSE "rendered",
         !.reached = {"session", "sidebar", "filter", "metrics", "charts"},
         !.df_jahr_filtered = dfj, !.df_filtered = dff,
         !.kennzahlen = Kennzahlen(dfj, s),
         !.graph1 = Graph1(dfj),
         !.graph2 = IF dff # <<>> THEN Graph2(dff) ELSE NoGraph,
         !.tabs = tabs,
         !.msgs = msgs
                  \o (IF dff # <<>> THEN <<>>
                      ELSE <<Message("warning",
                          "Keine Daten für die gewählte Filterkombination vorhanden.")>>)
                  \o TabMsgs(tabs)]]

\* Variant: a quarter selection without a quarter empties the years too.
SessionCoupled(s, jahr_range, selected) ==
    [s EXCEPT !.selected_quartale = selected,
              !.selected_jahre = IF selected = {} THEN {}
                                 ELSE jahr_range[1]..jahr_range[2]]

\* Variant: range(jahr_range[0], jahr_range[1]) leaves the last year out.
SessionUpdateExclusive(s, jahr_range, selected) ==
    [s EXCEPT !.selected_quartale = selected,
              !.selected_jahre = jahr_range[1]..(jahr_range[2] - 1)]

\* st.session_state['selected_quartale'] = selected   (line 333)
\* st.session_state['selected_jahre'] = list(range(jahr_range[0],
\*                                                jahr_range[1] + 1))   (line 355)
SessionUpdate(s, jahr_range, selected) ==
    [s EXCEPT !.selected_quartale = selected,
              !.selected_jahre = jahr_range[1]..jahr_range[2]]

\* The run from the sidebar to the end (lines 294-982), for a non-empty
\* frame df, the session s after its initialisation and the widget values w.
Sidebar(df, s, w, msgs0, run0) ==
    LET jahre     == Unique(df.rows, "jahr_opdatum")
        min_jahr  == Min(jahre)
        max_jahr  == Max(jahre)
        jahr_range == SliderValue(w, min_jahr, max_jahr)
        selected  == PillsValue(w, s.selected_quartale)
        msgs1     == IF selected = {}
                     THEN Append(msgs0, Message("write", "Kein Quartal ausgewählt."))
                     ELSE msgs0
        s1        == SessionUpdate(s, jahr_range, selected)
        w1        == [NoWidgets EXCEPT
                        !.slider = [on |-> TRUE, min |-> min_jahr, max |-> max_jahr,
                                    value |-> jahr_range],
                        !.pills = [on |-> TRUE, value |-> selected]]
        base      == [run0 EXCEPT !.selected_jahre = s1.selected_jahre,
                                   !.selected_quartale = s1.selected_quartale]
    IN  IF "bereich" \notin df.columns
        THEN \* df['bereich'] raises KeyError (line 362)
             [session |-> s1, widgets |-> w1, df |-> df,
              run |-> [base EXCEPT !.outcome = "exception", !.msgs = msgs1,
                                   !.reached = {"session", "sidebar"}]]
        ELSE
        LET bopts  == {"Alle"} \cup Unique(df.rows, "bereich")
            zopts  == {"Alle"} \cup Unique(df.rows, "zugang")
            bereich_filter == SelectValue(w.bereich, bopts)
            zugang_filter  == SelectValue(w.zugang, zopts)
            w2     == [w1 EXCEPT
                         !.bereich = [on |-> TRUE, options |-> bopts,
                                      value |-> bereich_filter],
                         !.zugang = [on |-> TRUE, options |-> zopts,
                                     value |-> zugang_filter]]
            run2   == [base EXCEPT !.bereich_filter = bereich_filter,
                                   !.zugang_filter = zugang_filter]
            dfj    == df_jahr_filtered_of(df.rows, s1.selected_jahre,
                                          bereich_filter, zugang_filter)
            dff    == df_filtered_of(df.rows, s1.selected_jahre,
                                     s1.selected_quartale,
                                     bereich_filter, zugang_filter)
        IN  IF s1.selected_jahre = {} \/ s1.selected_quartale = {}
            THEN [session |-> s1, widgets |-> w2, df |-> df,
                  run |-> [run2 EXCEPT
                      !.outcome = "stop",
                      !.reached = {"session", "sidebar"},
                      !.msgs = Append(msgs1, Message("warning",
                          "Bitte wählen Sie mindestens ein Jahr und ein Quartal aus."))]]
            ELSE IF Len(dfj) = 0
            THEN [session |-> s1, widgets |-> w2, df |-> df,
                  run |-> [run2 EXCEPT
                      !.outcome = "stop",
                      !.reached = {"session", "sidebar", "filter", "metrics"},
                      !.df_jahr_filtered = dfj, !.df_filtered = dff,
                      !.kennzahlen = Kennzahlen(dfj, s1),
                      !.msgs = Append(msgs1, Message("warning",
                          "Keine Daten für die gewählten Filter verfügbar."))]]
            ELSE Render(df, s1, w2, run2, msgs1, dfj, dff,
                        Tabs(1, dff, df.columns))

\* if df is None or df.empty   (line 238)
NoData(prep) == prep.kind = "None" \/ IsEmpty(prep.df)

\* The run from line 236 on: ex is what the call of line 234 did, prep what
\* prepare_data returned at line 235.
Page(ex, prep, resp, w) ==
    LET call == ex.call
        run0 == [NoRun EXCEPT !.export = call.kind,
                              !.requests = call.requests,
                              !.resp = IF call.requests > 0 THEN resp ELSE NoResponse]
    IN  IF call.kind = "raised"
        THEN [cache |-> ex.cache, df_raw |-> df_raw, prepared |-> prepared,
              session |-> session, widgets |-> NoWidgets,
              run |-> [run0 EXCEPT !.outcome = "exception"]]
        ELSE IF prep.kind = "KeyError"
        THEN [cache |-> ex.cache, df_raw |-> ArgAfter(call.value), prepared |-> prep,
              session |-> session, widgets |-> NoWidgets,
              run |-> [run0 EXCEPT !.outcome = "exception", !.msgs = call.msgs]]
        ELSE IF NoData(prep)
        THEN [cache |-> ex.cache, df_raw |-> ArgAfter(call.value), prepared |-> prep,
              session |-> session, widgets |-> NoWidgets,
              run |-> [run0 EXCEPT
                  !.outcome = "stop",
                  !.msgs = Append(call.msgs,
                                  Message("error", "Keine Daten verfügbar."))]]
        ELSE LET side == Sidebar(prep.df,
                                 SessionInit(session, Unique(prep.df.rows, "jahr_opdatum")),
                                 w, call.msgs, run0)
             IN  [cache |-> ex.cache, df_raw |-> ArgAfter(call.value),
                  prepared |-> [prep EXCEPT !.df = side.df],
                  session |-> side.session, widgets |-> side.widgets,
                  run |-> side.run]

\* Records of the registry in the dashboard model.
LeberRow ==
    [BaseRow EXCEPT !["opdatum"] = RawDate(2023, 11, 15),
                    ![FlagCol("bereich", 7)] = <<"1">>,
                    !["zugang"] = <<"1">>, !["hsm"] = <<"1">>]

BmcLeberRow ==
    [BaseRow EXCEPT !["opdatum"] = RawDate(2024, 2, 15),
                    ![FlagCol("bereich", 2)] = <<"1">>,
                    ![FlagCol("bereich", 7)] = <<"1">>,
                    !["zugang"] = <<"2">>]

AllgemeinRow ==
    [BaseRow EXCEPT !["opdatum"] = RawDate(2024, 8, 15),
                    ![FlagCol("bereich", 1)] = <<"1">>,
                    !["zugang"] = <<"7">>, !["type_sark"] = <<"x">>,
                    !["hsm"] = <<>>]

\* Two liver records without a usable hsm value and a sarcoma record.
LeberBlankRow ==
    [BaseRow EXCEPT !["opdatum"] = RawDate(2024, 5, 15),
                    ![FlagCol("bereich", 7)] = <<"1">>,
                    !["hsm"] = <<>>]

LeberMissingRow ==
    [BaseRow EXCEPT !["opdatum"] = RawDate(2024, 5, 16),
                    ![FlagCol("bereich", 7)] = <<"1">>,
                    !["hsm"] = None]

SarkomRow ==
    [BaseRow EXCEPT !["opdatum"] = RawDate(2024, 2, 15),
                    ![FlagCol("bereich", 4)] = <<"1">>,
                    !["type_sark"] = <<"2">>,
                    ![FlagCol("gruppen_chir_onko_sark", 1)] = <<"1">>]

\* A record of 'Chirurgische Onkologie/Sarkome' whose type_sark is no code.
SarkomUnknownRow ==
    [BaseRow EXCEPT !["opdatum"] = RawDate(2024, 3, 15),
                    ![FlagCol("bereich", 4)] = <<"1">>,
                    !["type_sark"] = <<>>]

UndatedRow ==
    [BaseRow EXCEPT !["opdatum"] = <<>>, ![FlagCol("bereich", 7)] = <<"1">>]

Bodies ==
    {JsonBody(<<>>, {}),
     JsonBody(<<UndatedRow>>, {}),
     JsonBody(<<LeberRow, BmcLeberRow, AllgemeinRow>>, {}),
     JsonBody(<<LeberRow, LeberBlankRow, LeberMissingRow, SarkomRow>>, {}),
     JsonBody(<<SarkomRow, SarkomUnknownRow>>, {}),
     JsonBody(<<LeberRow, BmcLeberRow>>, {"zugang"}),
     JsonBody(<<LeberRow, BmcLeberRow>>, {FlagCol("bereich", i) : i \in 1..9}),
     NotJson("RequestException"),
     NotJson("ValueError")}

\* The frames export_redcap_data can return.
RegistryFrames ==
    {NoneFrame} \cup {DataFrame(b.rows, b.absent) : b \in {x \in Bodies : x.json}}

\* prepare_data is a function of the frame alone: its value for every frame
\* of the registry, computed once.
PreparedFrame == [f \in RegistryFrames |-> prepare_data(f)]

\* df_raw = export_redcap_data(API_URL); df = prepare_data(df_raw)
Load(ex, resp, w) == Page(ex, PreparedFrame[ex.call.value], resp, w)

\* One run of the script (lines 227-982) when the registry would answer
\* `resp` and the widgets hold w.
Script(resp, w) == Load(cached_export(API_URL, resp), resp, w)


-----------------------------------------------------------------------------
(* The dashboard: environment, registry, user *)

Responses ==
    {[kind |-> k, status |-> 0, body |-> NoBody] : k \in {"Timeout", "ConnectionError"}}
    \cup {[kind |-> "response", status |-> st, body |-> NoBody] : st \in {404, 500}}
    \cup {[kind |-> "response", status |-> 200, body |-> b] : b \in Bodies}
    \cup {[kind |-> "response", status |-> 300,
            body |-> JsonBody(<<LeberRow, BmcLeberRow, AllgemeinRow>>, {})]}

\* The registry is asked only when the cache has no fresh entry.
Answers ==
    IF Fresh(cache, now)
    THEN {[kind |-> "Timeout", status |-> 0, body |-> NoBody]}
    ELSE Responses

Environs ==
    {[tok_op_gruppen |-> t] : t \in {<<>>, <<"">>, <<"t0k3n">>}}

InitApp ==
    /\ now = 0
    /\ cache = NoEntry
    /\ session = NoSession
    /\ widgets = NoWidgets
    /\ run = NoRun

Init ==
    /\ environ \in Environs
    /\ InitApp
    /\ df_raw = NoneFrame
    /\ prepared = Pending

\* st.slider(min_value=min_jahr, max_value=max_jahr, ...) when all records
\* are of one year, min_jahr = max_jahr: depending on the installed
\* Streamlit the slider is drawn with its single position, as in r, or the
\* call raises StreamlitAPIException; the session keys are initialised by
\* then (lines 248-251) and no widget is drawn.
SliderOutcomes(r) ==
    IF r.widgets.slider.on /\ r.widgets.slider.min = r.widgets.slider.max
    THEN {r,
          [r EXCEPT
             !.session = SessionInit(session, {r.widgets.slider.min}),
             !.widgets = NoWidgets,
             !.run = [NoRun EXCEPT !.outcome = "exception",
                                   !.export = r.run.export,
                                   !.requests = r.run.requests,
                                   !.resp = r.run.resp,
                                   !.msgs = r.cache.msgs,
                                   !.reached = {"session"}]]}
    ELSE {r}

\* The script runs with the widget values w.
Rerun(w) ==
    \E resp \in Answers :
        \E r \in SliderOutcomes(Script(resp, w)) :
            /\ cache' = r.cache
            /\ df_raw' = r.df_raw
            /\ prepared' = r.prepared
            /\ session' = r.session
            /\ widgets' = r.widgets
            /\ run' = r.run
            /\ UNCHANGED <<environ, now>>

\* The page is loaded or refreshed.
Reload == Rerun(widgets)

\* The user moves the year slider.
MoveSlider ==
    /\ widgets.slider.on
    /\ \E lo, hi \in widgets.slider.min..widgets.slider.max :
          /\ lo <= hi
          /\ <<lo, hi>> # widgets.slider.value
          /\ Rerun([widgets EXCEPT !.slider.value = <<lo, hi>>])

\* The user clicks one quarter pill.
TogglePill ==
    /\ widgets.pills.on
    /\ \E q \in {1, 2, 3, 4} :
          Rerun([widgets EXCEPT !.pills.value =
                    IF q \in @ THEN @ \ {q} ELSE @ \cup {q}])

\* The user picks an area.
SelectBereich ==
    /\ widgets.bereich.on
    /\ \E b \in widgets.bereich.options \ {widgets.bereich.value} :
          Rerun([widgets EXCEPT !.bereich.value = b])

\* The user picks an access route.
SelectZugang ==
    /\ widgets.zugang.on
    /\ \E z \in widgets.zugang.options \ {widgets.zugang.value} :
          Rerun([widgets EXCEPT !.zugang.value = z])

\* Time passes.
Tick ==
    /\ now + TimeStep <= MaxTime
    /\ now' = now + TimeStep
    /\ UNCHANGED <<environ, cache, session, widgets, run, df_raw, prepared>>

Next ==
    \/ Reload
    \/ MoveSlider
    \/ TogglePill
    \/ SelectBereich
    \/ SelectZugang
    \/ Tick

Spec == Init /\ [][Next]_vars

-----------------------------------------------------------------------------
(* prepare_data on its own, over frames that vary one kind of field *)

\* prepare_data(df_raw) is called.
Prepare ==
    /\ prepared.kind = "pending"
    /\ prepared' = prepare_data(df_raw)
    /\ df_raw' = ArgAfter(df_raw)
    /\ UNCHANGED <<environ, now, cache, session, widgets, run>>

InitPrepare(Rows, Absents) ==
    /\ environ = [tok_op_gruppen |-> <<"t0k3n">>]
    /\ InitApp
    /\ df_raw \in Frames(Rows, Absents)
    /\ prepared = Pending

InitCodes == InitPrepare(CodeRows, {{}, {"zugang"}})

InitFlags ==
    InitPrepare(FlagRows,
                {{}, {FlagCol("bereich", 7)}, {FlagCol("bereich", i) : i \in 1..9}})

InitDates == InitPrepare(DateRows, {{}, {"opdatum"}})

SpecCodes == InitCodes /\ [][Prepare]_vars

SpecFlags == InitFlags /\ [][Prepare]_vars

SpecDates == InitDates /\ [][Prepare]_vars

-----------------------------------------------------------------------------
(* Properties of prepare_data *)

\* prepare_data has returned a frame for df_raw.
Transformed == prepared.kind = "frame"

Raw == df_raw.rows

Out == prepared.df.rows

\* The raw record an output record was made from.
RawOf(r) == Raw[r["index"] + 1]

\* The numerals of the integer k among the raw codes: '7' and '7.0'.
Numerals(k) == {StrOf(k), StrOf(k) \o <<".", "0">>}

\* The label a coded field is to show for a raw cell.
ExpectedLabel(field, cell) ==
    IF \E k \in DOMAIN CodedMapping(field) : cell \in Numerals(k)
    THEN CodedMapping(field)[CHOOSE k \in DOMAIN CodedMapping(field) :
                                cell \in Numerals(k)]
    ELSE "Unbekannt"

\* C1: for every record of a frame that has the coded columns, each of
\* zugang, type_sark, hipec and max_dindo_calc gets the table's label when
\* the raw cell is a code of the table and 'Unbekannt' for every other cell
\* (a code outside the table, text, '', a missing value); prepare_data
\* returns a frame (it does not raise) and the record is in it.
C1_MappingTotal ==
    (/\ prepared.kind # "pending"
     /\ ~df_raw.none /\ ~IsEmpty(df_raw)
     /\ RequiredColumns \subseteq df_raw.columns
     /\ \A i \in 1..Len(Raw) : to_datetime(Raw[i]["opdatum"]) # NaT)
    => /\ Transformed
       /\ Len(Out) = Len(Raw)
       /\ \A i \in 1..Len(Raw) :
            /\ Out[i]["index"] = i - 1
            /\ \A f \in CodedFields :
                 Out[i][f] = ExpectedLabel(f, Raw[i][f])

C1_Witness ==
    /\ Transformed
    /\ \E i, j \in 1..Len(Out) :
          /\ RawOf(Out[i])["zugang"] = <<"7">>
          /\ Out[i]["zugang"] = "Unbekannt"
          /\ Out[i]["max_dindo_calc"] = "Grade IIIb"
          /\ RawOf(Out[j])["hipec"] = None
          /\ Out[j]["hipec"] = "Unbekannt"

\* The names of all nine areas (lines 91-99, commented-out entries included).
AllAreaNames ==
    (1 :> "Allgemein") @@ (2 :> "BMC") @@ (3 :> "Endokrin")
    @@ (4 :> "Chirurgische Onkologie/Sarkome") @@ (5 :> "Hernien")
    @@ (6 :> "Kolorektal") @@ (7 :> "Leber") @@ (8 :> "Pankreas")
    @@ (9 :> "Upper-GI")

\* The names of the numbers in S, in ascending order, joined by ', '.
RECURSIVE JoinNames(_, _)
JoinNames(names, S) ==
    IF S = {} THEN ""
    ELSE LET m == Min(S)
         IN  IF S = {m} THEN names[m]
             ELSE names[m] \o ", " \o JoinNames(names, S \ {m})

\* The flags of a checkbox field that are '1' on a raw record.
SetFlags(field, row, among) ==
    {i \in among : /\ FlagCol(field, i) \in df_raw.columns
                   /\ row[FlagCol(field, i)] = <<"1">>}

JoinedLabels(field) ==
    {JoinNames(CheckboxMapping(field), S) :
        S \in (SUBSET DOMAIN CheckboxMapping(field)) \ {{}}}

\* C3: for every record and every checkbox field whose indicator columns the
\* frame has, the label column exists and holds a non-empty string: the
\* joined names of the flags that are '1', or 'Nicht angegeben' when none
\* is, whatever the flag cells hold.
C3_LabelNonEmpty ==
    Transformed =>
        \A f \in Collapsed(df_raw.columns) :
            /\ f \in prepared.df.columns
            /\ \A i \in 1..Len(Out) :
                 LET set == SetFlags(f, RawOf(Out[i]), DOMAIN CheckboxMapping(f))
                 IN  /\ Out[i][f] # ""
                     /\ Out[i][f] \in JoinedLabels(f) \cup {"Nicht angegeben"}
                     /\ set = {} => Out[i][f] = "Nicht angegeben"
                     /\ set # {} => Out[i][f] = JoinNames(CheckboxMapping(f), set)

C3_Witness ==
    /\ Transformed
    /\ Collapsed(df_raw.columns) = CheckboxFields
    /\ \E i, j \in 1..Len(Out) :
          /\ \A c \in RawColumns : IsFlagCol(c) => RawOf(Out[i])[c] = None
          /\ \A f \in CheckboxFields : Out[i][f] = "Nicht angegeben"
          /\ \A c \in RawColumns : IsFlagCol(c) => RawOf(Out[j])[c] = <<"1">>
          /\ Out[j]["lokalisation_sark"] =
                "Kopf/Hals, Stamm, Extremitäten, Abdomen/retroperitoneal, andere"

\* C4: a record of a non-empty payload is in the output exactly when its
\* opdatum parses to a date, whatever its other fields hold; the output
\* keeps the records in input order, each once.
C4_OnlyUndatedDropped ==
    Transformed =>
        /\ \A i \in 1..Len(Raw) :
              (to_datetime(Raw[i]["opdatum"]) # NaT)
              <=> (\E j \in 1..Len(Out) : Out[j]["index"] = i - 1)
        /\ \A j \in 1..Len(Out) : Out[j]["index"] \in 0..(Len(Raw) - 1)
        /\ \A j, k \in 1..Len(Out) : j < k => Out[j]["index"] < Out[k]["index"]

C4_Witness ==
    /\ Transformed
    /\ Len(Raw) = 2 /\ Len(Out) = 1
    /\ Raw[1]["opdatum"] = <<>>
    /\ Raw[2]["zugang"] = <<"x">> /\ Raw[2]["bereich___2"] = <<"x">>
    /\ Out[1]["index"] = 1

\* 'Qn-YYYY' read back: <<year, quarter>>.
ParseQuartal(label) ==
    IF /\ Len(label) = 7 /\ label[1] = "Q" /\ IsDigit(label[2]) /\ label[3] = "-"
       /\ AllDigits(SubSeq(label, 4, 7))
    THEN <<IntOf(SubSeq(label, 4, 7)), DigitVal(label[2])>>
    ELSE <<0, 0>>

\* The text YYYY-MM-DD of year, month and day.
CalendarText == [y \in Years, m \in 1..12, d \in 1..31 |-> RawDate(y, m, d)]

\* <<year, month, day>> of a text YYYY-MM-DD.
CalendarOf ==
    [t \in {CalendarText[ymd] : ymd \in DOMAIN CalendarText} |->
        CHOOSE ymd \in DOMAIN CalendarText : CalendarText[ymd] = t]

\* C5: a record dated YYYY-MM-DD gets jahr_opdatum = YYYY, quartal_opdatum =
\* n = ceil(MM / 3), diag_quartal_opdatum = 'Qn-YYYY' and quartal_sort =
\* YYYY * 10 + n, and the label read back gives (YYYY, n).
C5_QuarterDerivation ==
    Transformed =>
        \A j \in 1..Len(Out) :
            /\ RawOf(Out[j])["opdatum"] \in DOMAIN CalendarOf
            /\ LET ymd == CalendarOf[RawOf(Out[j])["opdatum"]]
                   y   == ymd[1]
                   n   == (ymd[2] + 2) \div 3
               IN  /\ Out[j]["jahr_opdatum"] = y
                   /\ Out[j]["quartal_opdatum"] = n
                   /\ n \in 1..4
                   /\ Out[j]["diag_quartal_opdatum"]
                         = <<"Q">> \o StrOf(n) \o <<"-">> \o StrOf(y)
                   /\ Out[j]["quartal_sort"] = y * 10 + n
                   /\ ParseQuartal(Out[j]["diag_quartal_opdatum"]) = <<y, n>>

C5_Witness ==
    /\ Transformed
    /\ \E i, j \in 1..Len(Out) :
          /\ RawOf(Out[i])["opdatum"] =
                <<"2", "0", "2", "4", "-", "0", "2", "-", "1", "5">>
          /\ Out[i]["jahr_opdatum"] = 2024
          /\ Out[i]["diag_quartal_opdatum"] = <<"Q", "1", "-", "2", "0", "2", "4">>
          /\ Out[i]["quartal_sort"] = 20241
          /\ RawOf(Out[j])["opdatum"] = RawDate(2023, 12, 15)
          /\ Out[j]["diag_quartal_opdatum"] = <<"Q", "4", "-", "2", "0", "2", "3">>

\* (year, quarter) of a precedes that of b.
Precedes(a, b) ==
    \/ a["jahr_opdatum"] < b["jahr_opdatum"]
    \/ /\ a["jahr_opdatum"] = b["jahr_opdatum"]
       /\ a["quartal_opdatum"] < b["quartal_opdatum"]

\* C6: for any two output records, quartal_sort(a) < quartal_sort(b) exactly
\* when a's (year, quarter) precedes b's, and the keys are equal exactly when
\* the pairs are.
C6_SortKeyOrders ==
    Transformed =>
        \A i, j \in 1..Len(Out) :
            /\ (Out[i]["quartal_sort"] < Out[j]["quartal_sort"])
               <=> Precedes(Out[i], Out[j])
            /\ (Out[i]["quartal_sort"] = Out[j]["quartal_sort"])
               <=> /\ Out[i]["jahr_opdatum"] = Out[j]["jahr_opdatum"]
                   /\ Out[i]["quartal_opdatum"] = Out[j]["quartal_opdatum"]

C6_Witness ==
    /\ Transformed
    /\ \E i, j \in 1..Len(Out) :
          /\ Out[i]["jahr_opdatum"] = 2023 /\ Out[i]["quartal_opdatum"] = 4
          /\ Out[j]["jahr_opdatum"] = 2024 /\ Out[j]["quartal_opdatum"] = 1
          /\ Out[i]["quartal_sort"] < Out[j]["quartal_sort"]


-----------------------------------------------------------------------------
(* Properties of the dashboard *)

FilterNames == {"jahr", "quartal", "bereich", "zugang"}

\* One of the four filters with the selection of the last run.
ApplyFilter(name, rows) ==
    CASE name = "jahr" -> FilterJahr(rows, run.selected_jahre)
      [] name = "quartal" -> FilterQuartal(rows, run.selected_quartale)
      [] name = "bereich" -> FilterBereich(rows, run.bereich_filter)
      [] name = "zugang" -> FilterZugang(rows, run.zugang_filter)

RECURSIVE ApplyInOrder(_, _)
ApplyInOrder(order, rows) ==
    IF order = <<>> THEN rows
    ELSE ApplyInOrder(Tail(order), ApplyFilter(Head(order), rows))

FilterOrders ==
    {o \in [1..4 -> FilterNames] : \A i, j \in 1..4 : i # j => o[i] # o[j]}

\* C7: df_filtered is what the year, quarter, area and access filters give
\* when applied to df one after the other in any order, and applying any of
\* them to df_filtered again changes nothing.
C7_FilterOrderFree ==
    "filter" \in run.reached =>
        /\ \A o \in FilterOrders : ApplyInOrder(o, Out) = run.df_filtered
        /\ \A f \in FilterNames : ApplyFilter(f, run.df_filtered) = run.df_filtered

C7_Witness ==
    /\ run.outcome = "rendered"
    /\ Len(Out) = 3
    /\ run.selected_jahre = {2024}
    /\ run.selected_quartale = {1, 2}
    /\ run.bereich_filter = "BMC, Leber"
    /\ run.zugang_filter = "Laparoskopisch"
    /\ Len(run.df_filtered) = 1

\* The registry's answer to the request of the last run is a failure as C8
\* states it: no answer, or a status outside 200..299.
FailedNon2xx ==
    /\ run.requests = 1
    /\ \/ run.resp.kind \in {"Timeout", "ConnectionError"}
       \/ run.resp.kind = "response" /\ run.resp.status \notin 200..299

\* C8: on a timeout, a refused connection or any non-2xx status
\* export_redcap_data raises nothing, shows an error and returns None.
C8_Non2xxReturnsNone ==
    FailedNon2xx =>
        /\ run.export = "returned"
        /\ df_raw.none
        /\ Len(run.msgs) >= 1
        /\ run.msgs[1].level = "error"
        /\ run.msgs[1].text = "Fehler beim Export: "

C8_Witness ==
    /\ run.requests = 1
    /\ run.resp.kind = "response" /\ run.resp.status = 404
    /\ run.export = "returned" /\ df_raw.none
    /\ run.msgs[1].exc = "HTTPError" /\ run.msgs[1].status = 404

TokenMissing == environ.tok_op_gruppen \in {<<>>, <<"">>}

\* C9: with tok_op_gruppen unset or empty, a run sends no request, shows
\* the configuration error that names the variable, gets None from
\* export_redcap_data and halts with 'Keine Daten verfügbar.' without
\* raising.
C9_MissingToken ==
    (TokenMissing /\ run.outcome # "none") =>
        /\ run.requests = 0
        /\ run.resp = NoResponse
        /\ run.export = "returned"
        /\ df_raw.none
        /\ run.msgs =
              <<Message("error",
                  "API Token nicht gefunden. Bitte Umgebungsvariable 'tok_op_gruppen' setzen."),
                Message("error", "Keine Daten verfügbar.")>>
        /\ run.outcome = "stop"
        /\ run.reached = {}

C9_Witness ==
    /\ environ.tok_op_gruppen = <<"">>
    /\ run.outcome = "stop"
    /\ run.requests = 0
    /\ Len(run.msgs) = 2
    /\ now > cache.at

\* The payload has the columns of the export and no record with a date.
AllUndated ==
    /\ ~df_raw.none /\ ~IsEmpty(df_raw)
    /\ RequiredColumns \subseteq df_raw.columns
    /\ \A i \in 1..Len(Raw) : to_datetime(Raw[i]["opdatum"]) = NaT

\* The last run ended at the 'no data' check (lines 238-240).
HaltedNoData ==
    /\ run.outcome = "stop"
    /\ run.reached = {}
    /\ Len(run.msgs) >= 1
    /\ run.msgs[Len(run.msgs)] = Message("error", "Keine Daten verfügbar.")
    /\ widgets = NoWidgets

\* C10: in a run whose fetch yields None or an empty payload prepare_data
\* returns None, the run shows the 'no data' error and stops, the session
\* state is as before and no widget is drawn; the run halts in the same way
\* when the payload has records but none with a parseable date.
C10_NoDataHalts ==
    [][(now' = now /\ run'.export = "returned") =>
          /\ (df_raw'.none \/ IsEmpty(df_raw')) =>
                (prepared'.kind = "None" /\ HaltedNoData' /\ session' = session)
          /\ AllUndated' => (HaltedNoData' /\ session' = session)]_vars

C10_Witness ==
    /\ AllUndated
    /\ HaltedNoData
    /\ run.requests = 0
    /\ session.has_jahre

\* The records of df that the selection of the last run matches.
Matching == ApplyInOrder(<<"jahr", "quartal", "bereich", "zugang">>, Out)

\* The grouped tables of the detail tabs of the last run.
TabTablesOf(tab) == {TabTable(n, tab.df_bereich) : n \in tab.tables}

\* C11: in a run that reaches the sidebar and whose selection of years,
\* quarters, area and access matches no record, nothing raises, no error is
\* shown, a warning or info notice is shown, and every grouped count table
\* is skipped or has no row.
C11_EmptySelectionNotice ==
    (/\ "sidebar" \in run.reached
     /\ "bereich" \in prepared.df.columns
     /\ Matching = <<>>)
    => /\ run.outcome \in {"stop", "rendered"}
       /\ \A i \in 1..Len(run.msgs) : run.msgs[i].level # "error"
       /\ \E i \in 1..Len(run.msgs) : run.msgs[i].level \in {"warning", "info"}
       /\ run.graph1.drawn => run.graph1.jahr_counts_df = {}
       /\ run.graph2.drawn => run.graph2.q_counts = {}
       /\ \A i \in 1..Len(run.tabs) :
              \A t \in TabTablesOf(run.tabs[i]) : DOMAIN t = {}

\* The selection matches no record and the chart of cases per year has bars.
C11_Witness ==
    /\ run.outcome = "rendered"
    /\ run.selected_quartale = {2}
    /\ Matching = <<>>
    /\ run.graph1.drawn
    /\ Cardinality(run.graph1.jahr_counts_df) = 2
    /\ ~run.graph2.drawn
    /\ \E i \in 1..Len(run.msgs) :
          run.msgs[i] = Message("warning",
              "Keine Daten für die gewählte Filterkombination vorhanden.")
    /\ Len(run.tabs) = 5
    /\ \A i \in 1..5 : run.tabs[i].tables = {}

\* The cache holds what a call of export_redcap_data returned less than TTL
\* seconds ago.
WithinTTL == cache.set /\ now - cache.at < TTL

\* C12: a run that calls export_redcap_data less than 300 seconds after the
\* call whose return value the cache holds gets that value and sends no
\* request, and the cache stays as it is; with the credential set, a run
\* whose call finds no entry or one of 300 seconds or more sends one
\* request, and what it returns is stored with the time of this call; so
\* whatever a run is served without a request is less than 300 seconds old.
C12_CacheTTL ==
    [][(now' = now) =>
          /\ WithinTTL =>
                (run'.requests = 0 /\ cache' = cache /\ df_raw' = cache.value)
          /\ (~TokenMissing /\ ~WithinTTL) =>
                /\ run'.requests = 1
                /\ run'.export = "returned" =>
                      /\ cache'.set /\ cache'.at = now
                      /\ cache'.value = df_raw'
          /\ (~TokenMissing /\ run'.requests = 0) =>
                (cache.set /\ now - cache.at < TTL /\ df_raw' = cache.value)]_vars

\* A run is served the records fetched earlier, and a later run, after the
\* entry has expired, has fetched again.
C12_Witness ==
    /\ ~TokenMissing
    /\ run.requests = 0
    /\ run.outcome = "rendered"
    /\ cache.set /\ cache.at = TimeStep /\ now = 2 * TimeStep
    /\ df_raw = cache.value

\* The group of q_counts that an axis label stands for.
GroupOf(label) == CHOOSE g \in run.graph2.q_counts : g.x_label = label

\* 'Fallzahlen pro Quartal' is drawn and its groups span more than one year.
SpansYears ==
    /\ run.graph2.drawn
    /\ Cardinality({g.jahr_opdatum : g \in run.graph2.q_counts}) > 1

\* C13: when the filtered subset spans more than one year, the x axis of
\* 'Fallzahlen pro Quartal' shows every group of q_counts once and in the
\* order of (year, quarter): a group further left is earlier.
C13_QuarterAxisChronological ==
    SpansYears =>
        LET xaxis == run.graph2.xaxis
        IN  /\ {xaxis[i] : i \in 1..Len(xaxis)}
                  = {g.x_label : g \in run.graph2.q_counts}
            /\ \A i, j \in 1..Len(xaxis) :
                  i < j => Precedes(GroupOf(xaxis[i]), GroupOf(xaxis[j]))

\* The quarters Q4 2023, Q1 2024 and Q3 2024 on the axis, 2023 last.
C13_Witness ==
    /\ run.outcome = "rendered"
    /\ SpansYears
    /\ run.graph2.xaxis =
          <<x_label(2024, 1), x_label(2024, 3), x_label(2023, 4)>>
    /\ x_label(2023, 4) = <<"Q", "4", "-", " ", "2", "0", "2", "3">>

\* C14: prepare_data returns None exactly for a payload that is None or has
\* no record, and returns a frame, without raising, for every other
\* payload, whichever of the exported columns it lacks.
C14_PrepareTotal ==
    prepared.kind # "pending" =>
        /\ prepared.kind \in {"None", "frame"}
        /\ (prepared.kind = "None") <=> (df_raw.none \/ IsEmpty(df_raw))

\* A payload with records and without the column zugang: KeyError.
C14_Witness ==
    /\ ~df_raw.none /\ ~IsEmpty(df_raw)
    /\ df_raw.columns = RawColumns \ {"zugang"}
    /\ prepared.kind = "KeyError"

\* The HSM tab of the last run has labelled a copy of its records.
HsmLabelled ==
    /\ Len(run.tabs) >= 2
    /\ "hsm_jahr" \in run.tabs[2].tables
    /\ \E i \in 1..Len(df_hsm_of(run.tabs[2].df_bereich)) :
          df_hsm_of(run.tabs[2].df_bereich)[i]["hsm_label"] = <<"Ja">>

RECURSIVE Total(_)
Total(table) ==
    IF DOMAIN table = {} THEN 0
    ELSE LET k == CHOOSE x \in DOMAIN table : TRUE
         IN  table[k] + Total([x \in DOMAIN table \ {k} |-> table[x]])

\* The last run has drawn the detail tab of 'Leber', the one with the HSM
\* tab, for a subset with records.
HsmTabShown ==
    /\ run.outcome = "rendered"
    /\ Len(run.tabs) >= 2
    /\ run.tabs[2].df_bereich # <<>>

\* C16: every record of the subset of the tab that has the HSM tab,
\* whatever its hsm value, is in df_hsm with an hsm_label that is not
\* missing and is counted in both HSM tables: their counts add up to the
\* number of records of the subset.
C16_HsmLabelTotal ==
    HsmTabShown =>
        LET df_bereich == run.tabs[2].df_bereich
            df_hsm == df_hsm_of(df_bereich)
        IN  /\ {"hsm_jahr", "hsm_bereich"} \subseteq run.tabs[2].tables
            /\ \A i \in 1..Len(df_bereich) :
                  \E j \in 1..Len(df_hsm) :
                      /\ df_hsm[j]["index"] = df_bereich[i]["index"]
                      /\ df_hsm[j]["hsm_label"] # <<>>
            /\ Total(TabTable("hsm_jahr", df_bereich)) = Len(df_bereich)
            /\ Total(TabTable("hsm_bereich", df_bereich)) = Len(df_bereich)

\* Three liver records with hsm '1', '' and missing: one is counted.
C16_Witness ==
    /\ HsmTabShown
    /\ Len(run.tabs[2].df_bereich) = 3
    /\ {RawOf(run.tabs[2].df_bereich[i])["hsm"] : i \in 1..3}
          = {<<"1">>, <<>>, None}
    /\ Len(df_hsm_of(run.tabs[2].df_bereich)) = 2
    /\ {df_hsm_of(run.tabs[2].df_bereich)[j]["hsm_label"] : j \in 1..2}
          = {<<"Ja">>, <<>>}
    /\ Total(TabTable("hsm_jahr", run.tabs[2].df_bereich)) = 1

\* A run that draws the sidebar follows one that drew it for the same years.
SidebarAgain ==
    /\ now' = now
    /\ widgets.slider.on /\ widgets.pills.on
    /\ widgets'.slider.on /\ widgets'.pills.on
    /\ widgets'.slider.min = widgets.slider.min
    /\ widgets'.slider.max = widgets.slider.max
    /\ prepared' = prepared

\* Some record of year y lies in one of the quarters.
HasQuarter(y, quartale) ==
    \E i \in 1..Len(Out) : /\ Out[i]["jahr_opdatum"] = y
                            /\ Out[i]["quartal_opdatum"] \in quartale

\* Some record of quarter q lies in one of the years.
HasYear(q, jahre) ==
    \E i \in 1..Len(Out) : /\ Out[i]["quartal_opdatum"] = q
                            /\ Out[i]["jahr_opdatum"] \in jahre

\* C17 as stated: after a change of the quarter pills no year stays in
\* selected_jahre whose records all lie in quarters that are not selected,
\* and after a change of the year range no quarter stays in
\* selected_quartale that has no record in the selected years.
C17_Propagation ==
    [][SidebarAgain =>
          /\ widgets'.pills.value # widgets.pills.value =>
                \A y \in session'.selected_jahre :
                    HasQuarter(y, session'.selected_quartale)
          /\ widgets'.slider.value # widgets.slider.value =>
                \A q \in session'.selected_quartale :
                    HasYear(q, session'.selected_jahre)]_vars

\* C17, amended: the two filter states are independent.  After every run
\* that draws the sidebar selected_jahre is the range of the slider and
\* selected_quartale the selection of the pills; a change of the pills
\* alone leaves selected_jahre as it was and a change of the slider alone
\* leaves selected_quartale as it was, also when a selected year is left
\* without a selected quarter.
C17_IndependentFilters ==
    [][SidebarAgain =>
          /\ session'.selected_jahre
                = widgets'.slider.value[1]..widgets'.slider.value[2]
          /\ session'.selected_quartale = widgets'.pills.value
          /\ widgets'.slider.value = widgets.slider.value =>
                session'.selected_jahre = session.selected_jahre
          /\ widgets'.pills.value = widgets.pills.value =>
                session'.selected_quartale = session.selected_quartale]_vars

\* 2023 is selected, its only record lies in quarter 4, and quarter 4 has
\* been deselected.
C17_Witness ==
    /\ run.outcome = "rendered"
    /\ session.selected_jahre = {2023, 2024}
    /\ session.selected_quartale = {1, 2, 3}
    /\ ~HasQuarter(2023, session.selected_quartale)
    /\ HasQuarter(2023, {4})
    /\ widgets.pills.value = {1, 2, 3}

\* The areas whose flag is '1' on the raw record of r.
AreasOf(r) ==
    {AllAreaNames[k] : k \in SetFlags("bereich", RawOf(r), 1..9)}

\* r is among the records of the i-th detail tab.
InTab(r, i) ==
    \E j \in 1..Len(run.tabs[i].df_bereich) :
        run.tabs[i].df_bereich[j]["index"] = r["index"]

\* C18: in a rendered run every record of df_filtered is among the records
\* of the detail tab of each area whose flag it has set.
C18_RecordInEachAreaTab ==
    run.outcome = "rendered" =>
        \A n \in 1..Len(run.df_filtered) :
            \A i \in 1..Len(run.tabs) :
                bereiche[i] \in AreasOf(run.df_filtered[n])
                => InTab(run.df_filtered[n], i)

\* A record with the flags of BMC and Leber is in df_filtered and in no tab.
C18_Witness ==
    /\ run.outcome = "rendered"
    /\ Len(run.tabs) = 5
    /\ \E n \in 1..Len(run.df_filtered) :
          /\ AreasOf(run.df_filtered[n]) = {"BMC", "Leber"}
          /\ run.df_filtered[n]["bereich"] = "BMC, Leber"
          /\ \A i \in 1..5 : ~InTab(run.df_filtered[n], i)

\* C19: in every run that shows the metrics, 'Gesamt Fälle' is the number of
\* records of df that satisfy the year, quarter, area and access selection
\* together, and 'Bereiche' the number of distinct area labels among them.
C19_MetricsOfAllFilters ==
    run.kennzahlen.shown =>
        /\ run.kennzahlen.gesamt_faelle = Len(Matching)
        /\ run.kennzahlen.bereiche = Cardinality(Unique(Matching, "bereich"))

\* Quarter 1 alone is selected: one record matches, 'Gesamt Fälle' is 3.
C19_Witness ==
    /\ run.outcome = "rendered"
    /\ run.selected_jahre = {2023, 2024}
    /\ run.selected_quartale = {1}
    /\ run.bereich_filter = "Alle" /\ run.zugang_filter = "Alle"
    /\ Len(Matching) = 1
    /\ run.kennzahlen.gesamt_faelle = 3
    /\ run.kennzahlen.bereiche = 3

\* The cache holds the None of a call that failed.
FailureCached == cache.set /\ cache.value.none

\* C20: with the credential set, a run that follows a call of
\* export_redcap_data which returned None sends a new request, also when
\* less than 300 seconds have passed since that call.
C20_FailureNotCached ==
    [][(now' = now /\ ~TokenMissing /\ FailureCached) =>
          run'.requests = 1]_vars

\* A run has been served the None and the error of a failed fetch from the
\* cache: no request, 'Fehler beim Export' and 'Keine Daten verfügbar.'.
C20_Witness ==
    /\ ~TokenMissing
    /\ FailureCached
    /\ now - cache.at < TTL
    /\ run.requests = 0
    /\ run.export = "returned"
    /\ df_raw.none
    /\ run.outcome = "stop"
    /\ Len(run.msgs) = 2
    /\ run.msgs[1].text = "Fehler beim Export: "
    /\ run.msgs[2] = Message("error", "Keine Daten verfügbar.")

\* The last run ended at the check of lines 377-379.
HaltedAtSelectionCheck ==
    /\ run.outcome = "stop"
    /\ Len(run.msgs) >= 1
    /\ run.msgs[Len(run.msgs)] = Message("warning",
          "Bitte wählen Sie mindestens ein Jahr und ein Quartal aus.")

\* C21: once a run has initialised the session keys, selected_jahre is a
\* non-empty range of consecutive years and selected_quartale a subset of
\* {1, 2, 3, 4}; after a run that draws the sidebar, selected_jahre is
\* lo..hi for the slider's value (lo, hi) with min_jahr <= lo <= hi <=
\* max_jahr, the least and greatest year of df, and selected_quartale is the
\* selection of the pills; a run that halts at the check for at least one
\* year and one quarter has an empty quarter selection and a year selected.
C21_SessionSelections ==
    /\ session.has_jahre =>
          /\ session.selected_jahre # {}
          /\ session.selected_jahre
                = Min(session.selected_jahre)..Max(session.selected_jahre)
          /\ session.has_quartale
          /\ session.selected_quartale \subseteq {1, 2, 3, 4}
    /\ "sidebar" \in run.reached =>
          LET lo == widgets.slider.value[1]
              hi == widgets.slider.value[2]
              jahre == {Out[i]["jahr_opdatum"] : i \in 1..Len(Out)}
          IN  /\ widgets.slider.on /\ widgets.pills.on
              /\ widgets.slider.min = Min(jahre)
              /\ widgets.slider.max = Max(jahre)
              /\ widgets.slider.min <= lo /\ lo <= hi
              /\ hi <= widgets.slider.max
              /\ session.selected_jahre = lo..hi
              /\ session.selected_quartale = widgets.pills.value
              /\ run.selected_jahre = session.selected_jahre
              /\ run.selected_quartale = session.selected_quartale
    /\ HaltedAtSelectionCheck =>
          /\ "sidebar" \in run.reached
          /\ session.selected_quartale = {}
          /\ session.selected_jahre # {}

\* The slider is narrowed to 2024, every pill is deselected and the run
\* halts at the check.
C21_Witness ==
    /\ HaltedAtSelectionCheck
    /\ widgets.slider.min = 2023 /\ widgets.slider.max = 2024
    /\ widgets.slider.value = <<2024, 2024>>
    /\ session.selected_jahre = {2024}
    /\ widgets.pills.value = {}
    /\ session.selected_quartale = {}

\* The last run has drawn the tab 'Chirurgische Onkologie/Sarkome' for a
\* subset with records.
SarkomTabShown ==
    /\ run.outcome = "rendered"
    /\ run.tabs[1].df_bereich # <<>>

\* The records of the tab whose raw type_sark is one of the codes 1 and 2.
KnownSarkom ==
    LET known(r) == RawOf(r)["type_sark"] \in Numerals(1) \cup Numerals(2)
    IN  SelectSeq(run.tabs[1].df_bereich, known)

\* C22: the tile 'Gesamtzahl Sarkome' shows the number of records of the tab
\* whose raw type_sark is 1 or 2, and its bars per year count these records
\* only: no record with a missing, non-numeric or other type_sark is in the
\* total or in a bar.
C22_SarkomTileKnownOnly ==
    SarkomTabShown =>
        /\ run.tabs[1].kacheln.total_sark = <<Len(KnownSarkom)>>
        /\ "kachel_sarkome" \in run.tabs[1].tables =>
              LET grp == TabTable("kachel_sarkome", run.tabs[1].df_bereich)
              IN  /\ Total(grp) = Len(KnownSarkom)
                  /\ \A k \in DOMAIN grp : k["type_sark"] # "Unbekannt"

\* Two records, type_sark '2' and '': the tile shows 2 and has a bar for
\* 'Unbekannt'.
C22_Witness ==
    /\ SarkomTabShown
    /\ Len(run.tabs[1].df_bereich) = 2
    /\ {RawOf(run.tabs[1].df_bereich[i])["type_sark"] : i \in 1..2}
          = {<<"2">>, <<>>}
    /\ Len(KnownSarkom) = 1
    /\ run.tabs[1].kacheln.total_sark = <<2>>
    /\ \E k \in DOMAIN TabTable("kachel_sarkome", run.tabs[1].df_bereich) :
          k["type_sark"] = "Unbekannt"

=============================================================================
